---- MODULE Spec2Model ----
(***************************************************************************)
(* A model of src/main.py: the RingSystem class.  A RingSystem holds the   *)
(* samples (x_data, y_data), the period and shift of the ring mapping, the *)
(* frequency curve fourier_data (period -> centroid) and, once the first   *)
(* draw has happened, a matplotlib figure with a period slider.            *)
(*                                                                         *)
(* Numbers.  The program computes with Python floats.  The model draws x,  *)
(* y, shift and period from small sets of integers chosen so that every    *)
(* angle ((x + shift) / period) * 2 pi is a whole number of quarter turns; *)
(* cos and sin are then exactly 0, 1 or -1 and a ring point is a pair of   *)
(* integers.  Means are exact rationals <<num, den>> in lowest terms.      *)
(* Floating-point rounding is not modelled.                                *)
(***************************************************************************)
EXTENDS Integers, Sequences, FiniteSets

VARIABLES x_data, y_data, fourier_data, period, shift, fig, ylim, drawn, last, run

vars == <<x_data, y_data, fourier_data, period, shift, fig, ylim, drawn, last, run>>

(* ------------------------------ bounds --------------------------------- *)

\* The longest sample list the model builds.
MaxSamples == 2

\* x and y of add_point, and the end points of add_function.
XS == {-1, 1}
YS == {-2, 1}
\* The periods and shifts a caller passes to set_period.
PERIODS == {-1, 0, 4}
SHIFTS == {0, 1}
\* The values a drag of the slider yields: inside [valmin, valmax] = [0.1, 10].
SLIDER_VALS == {2, 4}
\* The functions f: x -> y handed to add_function.
FUNCS == {[x \in -1..1 |-> 1], [x \in -1..1 |-> IF x < 0 THEN -2 ELSE 1]}

(* ----------------------------- arithmetic ------------------------------ *)

Abs(n) == IF n < 0 THEN -n ELSE n

RECURSIVE Gcd(_, _)
Gcd(a, b) == IF b = 0 THEN a ELSE Gcd(b, a % b)

\* The rational num / den (den # 0) in lowest terms with a positive denominator.
Frac(num, den) ==
    LET g == Gcd(Abs(num), Abs(den))
        sg == IF den < 0 THEN -1 ELSE 1
    IN  <<sg * (num \div g), sg * (den \div g)>>

RatAdd(a, b) == Frac(a[1] * b[2] + b[1] * a[2], a[2] * b[2])

RECURSIVE SeqMax(_)
SeqMax(s) ==
    IF Len(s) = 1 THEN s[1]
    ELSE LET m == SeqMax(Tail(s)) IN IF s[1] > m THEN s[1] ELSE m

RECURSIVE SeqMin(_)
SeqMin(s) ==
    IF Len(s) = 1 THEN s[1]
    ELSE LET m == SeqMin(Tail(s)) IN IF s[1] < m THEN s[1] ELSE m

(* --------------------------- the ring mapping --------------------------- *)

\* cos and sin of k quarter turns.
CosQ(k) == CASE k % 4 = 0 -> 1 [] k % 4 = 1 -> 0 [] k % 4 = 2 -> -1 [] OTHER -> 0
SinQ(k) == CASE k % 4 = 0 -> 0 [] k % 4 = 1 -> 1 [] k % 4 = 2 -> 0 [] OTHER -> -1

\* (x + shift) / period in quarter turns; p # 0.
QuarterTurns(x, p, s) ==
    IF p > 0 THEN (4 * (x + s)) \div p ELSE (-(4 * (x + s))) \div (-p)

\* coordinate_to_ring: y * e ^ (i * x_radian).  Raises ZeroDivisionError when
\* the period is 0; the callers test CanMap first.
CanMap(p) == p # 0

coordinate_to_ring(x, y, p, s) ==
    LET k == QuarterTurns(x, p, s) IN <<y * CosQ(k), y * SinQ(k)>>

\* The loop of draw_points: mean_x += x / len, mean_y += y / len from (0, 0).
RECURSIVE MeanLoop(_, _, _, _, _, _)
MeanLoop(xs, ys, p, s, i, acc) ==
    IF i > Len(xs) THEN acc
    ELSE LET c == coordinate_to_ring(xs[i], ys[i], p, s)
         IN  MeanLoop(xs, ys, p, s, i + 1,
                      <<RatAdd(acc[1], Frac(c[1], Len(xs))),
                        RatAdd(acc[2], Frac(c[2], Len(ys)))>>)

Centroid(xs, ys, p, s) == MeanLoop(xs, ys, p, s, 1, <<<<0, 1>>, <<0, 1>>>>)

\* The difference taken the wrong way round.
AutoPeriod_Swapped(xs) == SeqMin(xs) - SeqMax(xs)

AutoPeriod(xs) == SeqMax(xs) - SeqMin(xs)

\* The shift without its sign.
AutoShift_Unsigned(xs) == SeqMin(xs)

AutoShift(xs) == -SeqMin(xs)

Boundary(ys) == SeqMax(ys)

\* A curve rebuilt from the new entry alone.
Record_Fresh(fd, p, c) == [k \in {p} |-> c]

\* An entry averaged with the one it finds under the key.
Record_Average(fd, p, c) ==
    [k \in DOMAIN fd \cup {p} |->
        IF k # p THEN fd[k]
        ELSE IF p \in DOMAIN fd
             THEN <<Frac(RatAdd(fd[p][1], c[1])[1], 2 * RatAdd(fd[p][1], c[1])[2]),
                    Frac(RatAdd(fd[p][2], c[2])[1], 2 * RatAdd(fd[p][2], c[2])[2])>>
             ELSE c]

\* self.fourier_data[self.period] = [mean_x, mean_y]
Record(fd, p, c) == [k \in DOMAIN fd \cup {p} |-> IF k = p THEN c ELSE fd[k]]

(* ------------------------------ the state ------------------------------ *)

EmptyMap == [k \in {} |-> 0]

State == [x_data |-> x_data, y_data |-> y_data, fourier_data |-> fourier_data,
          period |-> period, shift |-> shift, fig |-> fig, ylim |-> ylim]

\* reset_points
ResetPoints(st) ==
    [st EXCEPT !.x_data = <<>>, !.y_data = <<>>, !.fourier_data = EmptyMap]

\* add_point
AddPoint(st, x, y) ==
    [st EXCEPT !.x_data = Append(@, x), !.y_data = Append(@, y)]

\* The period and shift draw_points works with: derived when the period is 0.
Resolved(st) ==
    IF st.period = 0
    THEN [st EXCEPT !.period = AutoPeriod(st.x_data), !.shift = AutoShift(st.x_data)]
    ELSE st

\* What draw_points leaves when it runs to its end on the resolved state r: the
\* figure set up, the axes scaled to the boundary, the centroid recorded.
Drawn(r) ==
    [r EXCEPT !.fig = TRUE,
              !.ylim = Boundary(r.y_data),
              !.fourier_data =
                  Record(@, r.period, Centroid(r.x_data, r.y_data, r.period, r.shift))]

\* A draw_points without the test of self.x_data: max() of an empty list
\* raises ValueError, at the period when it is 0 and at the boundary otherwise.
DrawPoints_Unguarded(st) ==
    IF st.x_data = <<>>
    THEN [st |-> [st EXCEPT !.fig = (st.period # 0) \/ @], ok |-> FALSE,
          emitted |-> st.period # 0, ran |-> TRUE]
    ELSE LET r == Resolved(st)
         IN  IF ~CanMap(r.period)
             THEN [st |-> r, ok |-> FALSE, emitted |-> FALSE, ran |-> TRUE]
             ELSE [st |-> Drawn(r), ok |-> TRUE, emitted |-> TRUE, ran |-> TRUE]

\* draw_points.  The result is the state it leaves, whether it returned
\* normally (ok), whether it handed anything to the renderer (emitted) and
\* that draw_points ran.
DrawPoints(st) ==
    IF st.x_data = <<>>
    THEN [st |-> st, ok |-> TRUE, emitted |-> FALSE, ran |-> TRUE]
    ELSE LET r == Resolved(st)
         IN  IF ~CanMap(r.period)
             THEN [st |-> r, ok |-> FALSE, emitted |-> FALSE, ran |-> TRUE]
             ELSE [st |-> Drawn(r), ok |-> TRUE, emitted |-> TRUE, ran |-> TRUE]

\* update_period: the slider's on_changed callback.
UpdatePeriod(st, v) == DrawPoints([st EXCEPT !.period = v])

\* A set_period that recomputes whether or not a figure is live.
SetPeriod_AlwaysDraw(st, p, s) ==
    UpdatePeriod([st EXCEPT !.shift = s, !.period = p], p)

\* set_period.  With a figure, Slider.set_val notifies the observers of the
\* slider with the value it was given (set_val does not clip it), which runs
\* update_period.
SetPeriod(st, p, s) ==
    LET t == [st EXCEPT !.shift = s, !.period = p]
    IN  IF st.fig THEN UpdatePeriod(t, t.period)
        ELSE [st |-> t, ok |-> TRUE, emitted |-> FALSE, ran |-> FALSE]

\* np.arange(from_x, to_x + step, step) for step = (to_x - from_x) / samples,
\* for the inputs where samples divides to_x - from_x.
Arange(from_x, to_x, samples) ==
    LET step == IF to_x >= from_x THEN (to_x - from_x) \div samples
                ELSE -((from_x - to_x) \div samples)
    IN  [i \in 1..(samples + 1) |-> from_x + (i - 1) * step]

RECURSIVE AddAll(_, _, _, _)
AddAll(st, xs, f, i) ==
    IF i > Len(xs) THEN st ELSE AddAll(AddPoint(st, xs[i], f[xs[i]]), xs, f, i + 1)

\* An add_function that appends to the samples it finds.
AddFunction_NoReset(st, from_x, to_x, samples, f) ==
    IF samples = 0 \/ from_x = to_x
    THEN [st |-> st, ok |-> FALSE, emitted |-> FALSE, ran |-> FALSE]
    ELSE [st |-> AddAll(st, Arange(from_x, to_x, samples), f, 1),
          ok |-> TRUE, emitted |-> FALSE, ran |-> FALSE]

\* add_function.  samples = 0 raises ZeroDivisionError at the step; a step of
\* 0 (from_x = to_x) makes np.arange raise; both after reset_points.
AddFunction(st, from_x, to_x, samples, f) ==
    LET r == ResetPoints(st)
    IN  IF samples = 0 \/ from_x = to_x
        THEN [st |-> r, ok |-> FALSE, emitted |-> FALSE, ran |-> FALSE]
        ELSE [st |-> AddAll(r, Arange(from_x, to_x, samples), f, 1),
              ok |-> TRUE, emitted |-> FALSE, ran |-> FALSE]

(* ----------------------------- the actions ----------------------------- *)

NoArgs == <<>>

\* The progress of the sequence set_period(p, s); draw_points();
\* set_period(p, s); draw_points() with p > 0: the stage reached, the
\* arguments and the curve after its first draw_points (fd1).
NoRun == [stage |-> 0, p |-> 0, s |-> 0, fd1 |-> EmptyMap]

NextRun(op, args, post) ==
    CASE op = "set_period" /\ run.stage = 2 /\ args = <<run.p, run.s>>
           -> [run EXCEPT !.stage = 3]
      [] op = "set_period" /\ ~(run.stage = 2 /\ args = <<run.p, run.s>>)
           -> IF args[1] > 0
              THEN [stage |-> 1, p |-> args[1], s |-> args[2], fd1 |-> EmptyMap]
              ELSE NoRun
      [] op = "draw_points" /\ run.stage = 1
           -> [run EXCEPT !.stage = 2, !.fd1 = post.fourier_data]
      [] op = "draw_points" /\ run.stage = 3
           -> [run EXCEPT !.stage = 4]
      [] OTHER -> NoRun

\* What the operation recorded in last started from: the period, whether a
\* figure was live, the number of samples and the keys of the curve.
Pre == [period |-> period, fig |-> fig, n |-> Len(x_data),
        keys |-> DOMAIN fourier_data]

NoPre == [period |-> 0, fig |-> FALSE, n |-> 0, keys |-> {}]

Install(op, args, res) ==
    /\ x_data' = res.st.x_data
    /\ y_data' = res.st.y_data
    /\ fourier_data' = res.st.fourier_data
    /\ period' = res.st.period
    /\ shift' = res.st.shift
    /\ fig' = res.st.fig
    /\ ylim' = res.st.ylim
    /\ last' = [op |-> op, ok |-> res.ok, emitted |-> res.emitted, pre |-> Pre]
    /\ drawn' = (drawn \/ res.ran)
    /\ run' = NextRun(op, args, res.st)

Returned(st) == [st |-> st, ok |-> TRUE, emitted |-> FALSE, ran |-> FALSE]

\* RingSystem(): fig = None, reset_points(), set_period().  ylim stands for
\* the limits of the axes, which exist once fig does.
Init ==
    /\ x_data = <<>>
    /\ y_data = <<>>
    /\ fourier_data = EmptyMap
    /\ period = 0
    /\ shift = 0
    /\ fig = FALSE
    /\ ylim = 0
    /\ drawn = FALSE
    /\ last = [op |-> "init", ok |-> TRUE, emitted |-> FALSE, pre |-> NoPre]
    /\ run = NoRun

add_point ==
    \E x \in XS, y \in YS :
        /\ Len(x_data) < MaxSamples
        /\ Install("add_point", <<x, y>>, Returned(AddPoint(State, x, y)))

add_function ==
    \E from_x \in XS, to_x \in XS, samples \in 0..(MaxSamples - 1), f \in FUNCS :
        /\ samples # 0 => (to_x - from_x) % samples = 0
        /\ Install("add_function", <<from_x, to_x, samples, f>>,
                   AddFunction(State, from_x, to_x, samples, f))

reset_points == Install("reset_points", NoArgs, Returned(ResetPoints(State)))

set_period ==
    \E p \in PERIODS, s \in SHIFTS :
        Install("set_period", <<p, s>>, SetPeriod(State, p, s))

\* The user drags the slider of the live figure.
update_period ==
    \E v \in SLIDER_VALS :
        /\ fig
        /\ Install("update_period", <<v>>, UpdatePeriod(State, v))

draw_points == Install("draw_points", NoArgs, DrawPoints(State))

Next ==
    \/ add_point
    \/ add_function
    \/ reset_points
    \/ set_period
    \/ update_period
    \/ draw_points

Spec == Init /\ [][Next]_vars

(* ------------------------------ the claims ----------------------------- *)

Keys == DOMAIN fourier_data

XValues == {x_data[i] : i \in 1..Len(x_data)}

\* C1: add_function replaces the whole dataset: when it returns, the curve is
\* empty and the samples are exactly the ones this call generated, f applied
\* to the evenly spaced x values from from_x to to_x.
C1_AddFunctionReplaces ==
    [][(last'.op = "add_function" /\ last'.ok) =>
          /\ fourier_data' = EmptyMap
          /\ \E from_x \in XS, to_x \in XS, samples \in 1..(MaxSamples - 1),
                f \in FUNCS :
                /\ from_x # to_x
                /\ (to_x - from_x) % samples = 0
                /\ x_data' = Arange(from_x, to_x, samples)
                /\ y_data' = [i \in 1..(samples + 1) |-> f[x_data'[i]]]]_vars

\* add_function has returned in a state that held samples and curve entries.
C1_Witness ==
    /\ last.op = "add_function"
    /\ last.ok
    /\ last.pre.n > 0
    /\ last.pre.keys # {}
    /\ Len(x_data) >= 2

\* C2, as stated: once draw_points has run, the period is positive in every
\* later state.
C2_PositiveAfterRecompute == drawn => period > 0

\* C2, amended: right after a draw_points that returns normally on a non-empty
\* sample list the period is not 0, and it is positive when the period was not
\* negative as draw_points began.
C2_PositiveAfterDraw ==
    (last.op = "draw_points" /\ last.ok /\ last.pre.n > 0) =>
        /\ period # 0
        /\ last.pre.period >= 0 => period > 0

\* draw_points has derived a positive period from a period of 0.
C2_Witness ==
    /\ last.op = "draw_points"
    /\ last.ok
    /\ last.pre.n > 0
    /\ last.pre.period = 0
    /\ period > 0

\* C3, as stated: every operation other than reset_points keeps every key of
\* the curve.
C3_OnlyResetShrinks ==
    [][last'.op # "reset_points" => Keys \subseteq Keys']_vars

\* C3, amended: every operation other than reset_points and add_function
\* (which calls reset_points) keeps every key of the curve.
C3_KeysKept ==
    [][last'.op \notin {"reset_points", "add_function"} => Keys \subseteq Keys']_vars

\* draw_points has added a key to a curve that already had one.
C3_Witness ==
    /\ last.op = "draw_points"
    /\ last.pre.keys # {}
    /\ last.pre.keys \subseteq Keys
    /\ last.pre.keys # Keys

\* C4: a draw_points that fails commits nothing: period, shift, samples and
\* curve are as before the call.
C4_FailedDrawChangesNothing ==
    [][(last'.op = "draw_points" /\ ~last'.ok) =>
          UNCHANGED <<period, shift, x_data, y_data, fourier_data>>]_vars

\* C5: a negative period never becomes a key of the curve.
C5_NoNegativeKey == \A k \in Keys : k >= 0

\* C6: a draw_points that starts with samples and a period of 0 sets the period
\* to max(x) - min(x) and the shift to -min(x); when it returns normally the
\* entry it has recorded is the one under that period.
C6_AutoPeriod ==
    (last.op = "draw_points" /\ last.pre.n > 0 /\ last.pre.period = 0) =>
        /\ \E mx \in XValues, mn \in XValues :
              /\ \A v \in XValues : mn <= v /\ v <= mx
              /\ period = mx - mn
              /\ shift = -mn
        /\ last.ok <=> period # 0
        /\ last.ok => Keys = last.pre.keys \cup {period}
        /\ ~last.ok => Keys = last.pre.keys

\* draw_points has derived period and shift and recorded a new key for them.
C6_Witness ==
    /\ last.op = "draw_points"
    /\ last.ok
    /\ last.pre.n > 0
    /\ last.pre.period = 0
    /\ shift # 0
    /\ period \in Keys \ last.pre.keys

\* C7, as stated: after set_period(p); draw_points(); set_period(p);
\* draw_points() with p > 0 and the samples untouched, the curve has an entry
\* for p and is the curve the first draw_points left.
C7_Idempotent ==
    run.stage = 4 => (run.p \in Keys /\ fourier_data = run.fd1)

\* C7, amended: the same, for a non-empty sample list.
C7_IdempotentWithSamples ==
    (run.stage = 4 /\ x_data # <<>>) => (run.p \in Keys /\ fourier_data = run.fd1)

\* The sequence has run to its end on samples, on a curve with another key.
C7_Witness ==
    /\ run.stage = 4
    /\ x_data # <<>>
    /\ Keys \ {run.p} # {}

\* C8, as stated: set_period leaves the curve and the samples as they are, and
\* add_point leaves the curve as it is.
C8_SetPeriodWritesNoCurve ==
    [][/\ last'.op = "set_period" => UNCHANGED <<fourier_data, x_data, y_data>>
       /\ last'.op = "add_point" => UNCHANGED fourier_data]_vars

\* C8, amended: set_period leaves the samples as they are; without a live
\* figure it leaves the curve as it is, with one it changes at most the entry
\* under the period it leaves; add_point leaves the curve as it is.
C8_SetPeriodFrame ==
    [][/\ last'.op = "set_period" =>
            /\ UNCHANGED <<x_data, y_data>>
            /\ ~fig => UNCHANGED fourier_data
            /\ Keys \subseteq Keys'
            /\ Keys' \subseteq Keys \cup {period'}
            /\ \A k \in Keys \ {period'} : fourier_data'[k] = fourier_data[k]
       /\ last'.op = "add_point" => UNCHANGED fourier_data]_vars

\* set_period, called with a live figure, has added a key to the curve.
C8_Witness ==
    /\ last.op = "set_period"
    /\ last.pre.fig
    /\ last.emitted
    /\ Keys # last.pre.keys

\* C9: draw_points on an empty sample list returns normally, hands nothing to
\* the renderer and leaves period, shift, samples, curve and figure alone.
C9_EmptyDrawIsNoOp ==
    [][(last'.op = "draw_points" /\ x_data = <<>>) =>
          /\ last'.ok
          /\ ~last'.emitted
          /\ UNCHANGED <<period, shift, x_data, y_data, fourier_data, fig, ylim>>]_vars

\* draw_points has run on an empty sample list with a period of 0.
C9_Witness ==
    /\ last.op = "draw_points"
    /\ last.pre.n = 0
    /\ last.pre.period = 0
    /\ period = 0
    /\ x_data = <<>>

\* C10: the boundary draw_points scales the axes to is max |y|: it is not
\* negative and every sample's y lies in [-boundary, boundary].
C10_BoundaryIsMaxAbs ==
    (last.op = "draw_points" /\ last.emitted) =>
        /\ ylim >= 0
        /\ \A i \in 1..Len(y_data) : -ylim <= y_data[i] /\ y_data[i] <= ylim
        /\ \E i \in 1..Len(y_data) : Abs(y_data[i]) = ylim

====
